---- MODULE Spec2Model ----
(***************************************************************************)
(* Model of meteofrance_api.model.rain.Rain: the adapter that wraps the    *)
(* raw "rain in the next hour" payload and exposes position, updated_on,   *)
(* forecast, quality, next_rain_date_locale and timestamp_to_locale_time.  *)
(*                                                                         *)
(* Python values are modelled as follows.                                  *)
(*   dict          a TLA+ record; a key lookup d[k] of an absent key       *)
(*                 raises KeyError                                         *)
(*   list          a sequence                                              *)
(*   float         an integer (coordinates are whole degrees here)         *)
(*   ISO-8601 str  a record of its syntactic parts                         *)
(*                 [y, mo, d, sep, hh, mi, ss, ms, tz]                     *)
(*                 sep is the date/time separator ("T", or "" when it is   *)
(*                 missing), tz the zone suffix ("Z", "+00:00", "+01:00")  *)
(*   call outcome  [err |-> "", val |-> <<v>>] for a returned value v,     *)
(*                 [err |-> e,  val |-> <<>>]  for a raised exception e    *)
(*   Optional[T]   <<>> for None, <<t>> for a value t                      *)
(***************************************************************************)
EXTENDS Integers, Sequences, FiniteSets, TLC

VARIABLES
    raw_data,     \* Rain.raw_data, the payload stored by __init__
    constructed,  \* the payload that was handed to __init__ (history)
    op,           \* the accessor called last ("init" after construction)
    arg,          \* its argument (timestamp_to_locale_time), else 0
    result,       \* the outcome of the last call
    first,        \* accessor name -> <<>> or <<its first call: [arg, out]>>
    again         \* the accessor called last had been called before

vars == <<raw_data, constructed, op, arg, result, first, again>>

\* Longest raw forecast list that is explored.
MaxLen == 3

\* Longest raw forecast list explored when the first call of every accessor
\* is remembered.
MaxLenTracked == 1

----------------------------------------------------------------------------
(* Call outcomes *)

Ok(v) == [err |-> "", val |-> <<v>>]

Raise(e) == [err |-> e, val |-> <<>>]

Failed(out) == out.err # ""

Value(out) == out.val[1]

HasKey(d, k) == k \in DOMAIN d

----------------------------------------------------------------------------
(* datetime.fromisoformat(s.replace('Z', '+00:00')).timestamp(), int(...) *)

\* str.replace('Z', '+00:00') on the time string: the only place a "Z" can
\* occur in the strings explored is the zone suffix.
replace_Z(s) == IF s.tz = "Z" THEN [s EXCEPT !.tz = "+00:00"] ELSE s

\* Days between 1970-01-01 and the civil date y-mo-d (proleptic Gregorian),
\* as datetime computes them.
DaysFromCivil(y, mo, d) ==
    LET yy  == IF mo <= 2 THEN y - 1 ELSE y
        era == yy \div 400
        yoe == yy - era * 400
        mp  == (mo + 9) % 12
        doy == (153 * mp + 2) \div 5 + d - 1
        doe == yoe * 365 + yoe \div 4 - yoe \div 100 + doy
    IN  era * 146097 + doe - 719468

UtcOffsetSeconds(tz) ==
    CASE tz = "+00:00" -> 0
      [] tz = "+01:00" -> 3600
      [] tz = "-04:00" -> -14400

\* datetime.fromisoformat: ValueError unless the string is
\* YYYY-MM-DD<sep>HH:MM:SS[.fff]+HH:MM with a one-character separator.  A
\* literal "Z" suffix is refused before Python 3.11; the code never passes
\* one, replace_Z comes first.
fromisoformat(s) ==
    IF s.sep = "" \/ s.tz = "Z" \/ s.mo \notin 1..12 \/ s.d \notin 1..31
       \/ s.hh \notin 0..23 \/ s.mi \notin 0..59 \/ s.ss \notin 0..59
    THEN Raise("ValueError")
    ELSE Ok(s)

\* int(dt.timestamp()) of an aware datetime: whole seconds since the epoch,
\* the fraction dropped towards zero.
int_timestamp(dt) ==
    LET secs == DaysFromCivil(dt.y, dt.mo, dt.d) * 86400
                + dt.hh * 3600 + dt.mi * 60 + dt.ss
                - UtcOffsetSeconds(dt.tz)
    IN  IF secs < 0 /\ dt.ms > 0 THEN secs + 1 ELSE secs

\* The conversion both updated_on and forecast apply to a time string.
iso_to_timestamp(time_iso8601) ==
    LET parsed == fromisoformat(replace_Z(time_iso8601))
    IN  IF Failed(parsed) THEN parsed ELSE Ok(int_timestamp(Value(parsed)))

----------------------------------------------------------------------------
(* meteofrance_api.helpers.timestamp_to_dateime_with_locale_tz *)

\* Offset from UTC, in seconds, of the zone at the instant ts.
ZoneOffset(tz_name, ts) ==
    CASE tz_name = "Europe/Paris" ->
            IF \/ (ts >= 1585443600 /\ ts < 1603587600)
               \/ (ts >= 1711846800 /\ ts < 1729990800)
            THEN 7200 ELSE 3600
      [] tz_name = "America/Guadeloupe" -> -14400

timestamp_to_dateime_with_locale_tz(ts, tz_name) ==
    [timestamp |-> ts, tz |-> tz_name, utcoffset |-> ZoneOffset(tz_name, ts)]

----------------------------------------------------------------------------
(* The accessors of class Rain, as functions of raw_data *)

\* Rain.position with the pair of coordinates unpacked as lat, lon.
position_swapped(raw) ==
    IF ~HasKey(raw, "geometry") THEN Raise("KeyError")
    ELSE IF ~HasKey(raw.geometry, "coordinates") THEN Raise("KeyError")
    ELSE IF Len(raw.geometry.coordinates) # 2 THEN Raise("ValueError")
    ELSE IF ~HasKey(raw, "properties") THEN Raise("KeyError")
    ELSE IF \E k \in {"altitude", "name", "country", "french_department",
                      "timezone"} : ~HasKey(raw.properties, k)
         THEN Raise("KeyError")
    ELSE Ok([lat     |-> raw.geometry.coordinates[1],
             lon     |-> raw.geometry.coordinates[2],
             alti    |-> raw.properties.altitude,
             name    |-> raw.properties.name,
             country |-> raw.properties.country,
             dept    |-> raw.properties.french_department,
             rain_product_available |-> 1,
             timezone |-> raw.properties.timezone])

\* Rain.position: every read of the v2 payload, in the order of the code.
position(raw) ==
    IF ~HasKey(raw, "geometry") THEN Raise("KeyError")
    ELSE IF ~HasKey(raw.geometry, "coordinates") THEN Raise("KeyError")
    ELSE IF Len(raw.geometry.coordinates) # 2 THEN Raise("ValueError")
    ELSE IF ~HasKey(raw, "properties") THEN Raise("KeyError")
    ELSE IF \E k \in {"altitude", "name", "country", "french_department",
                      "timezone"} : ~HasKey(raw.properties, k)
         THEN Raise("KeyError")
    ELSE Ok([lat     |-> raw.geometry.coordinates[2],
             lon     |-> raw.geometry.coordinates[1],
             alti    |-> raw.properties.altitude,
             name    |-> raw.properties.name,
             country |-> raw.properties.country,
             dept    |-> raw.properties.french_department,
             rain_product_available |-> 1,
             timezone |-> raw.properties.timezone])

\* Rain.updated_on
updated_on(raw) ==
    IF ~HasKey(raw, "update_time") THEN Raise("KeyError")
    ELSE iso_to_timestamp(raw.update_time)

\* The loop of Rain.forecast with the conversion guarded by a try whose
\* handler leaves the loop: the slots converted so far are returned.
RECURSIVE forecast_loop_partial(_, _, _)
forecast_loop_partial(items, i, acc) ==
    IF i > Len(items) THEN Ok(acc)
    ELSE LET item == items[i]
             ts   == iso_to_timestamp(item.time)
         IN  IF Failed(ts) THEN Ok(acc)
             ELSE forecast_loop_partial(items, i + 1,
                      Append(acc, [dt   |-> Value(ts),
                                   rain |-> item.rain_intensity,
                                   desc |-> item.rain_intensity_description]))

\* The loop of Rain.forecast over the raw list: items[i..] are still to be
\* converted, acc is the local list `forecast` built so far.  An exception
\* leaves the loop and the list built so far is dropped with the frame.
RECURSIVE forecast_loop(_, _, _)
forecast_loop(items, i, acc) ==
    IF i > Len(items) THEN Ok(acc)
    ELSE LET item == items[i]
             ts   == iso_to_timestamp(item.time)
         IN  IF Failed(ts) THEN ts
             ELSE forecast_loop(items, i + 1,
                      Append(acc, [dt   |-> Value(ts),
                                   rain |-> item.rain_intensity,
                                   desc |-> item.rain_intensity_description]))

\* Rain.forecast
forecast(raw) ==
    IF ~HasKey(raw, "properties") THEN Raise("KeyError")
    ELSE IF ~HasKey(raw.properties, "forecast") THEN Raise("KeyError")
    ELSE forecast_loop(raw.properties.forecast, 1, <<>>)

\* Rain.quality
quality(raw) == Ok(0)

\* next((cadran for cadran in forecast if cadran["rain"] > 1), None)
RECURSIVE first_cadran_with_rain(_, _)
first_cadran_with_rain(cadrans, i) ==
    IF i > Len(cadrans) THEN <<>>
    ELSE IF cadrans[i].rain > 1 THEN <<cadrans[i]>>
    ELSE first_cadran_with_rain(cadrans, i + 1)

\* A scan that converts the raw entries one at a time and stops at the first
\* cadran with rain, without converting the entries after it.
RECURSIVE lazy_first_cadran_with_rain(_, _)
lazy_first_cadran_with_rain(items, i) ==
    IF i > Len(items) THEN Ok(<<>>)
    ELSE LET ts == iso_to_timestamp(items[i].time)
         IN  IF Failed(ts) THEN ts
             ELSE IF items[i].rain_intensity > 1
                  THEN Ok(<<[dt |-> Value(ts), rain |-> items[i].rain_intensity,
                            desc |-> items[i].rain_intensity_description]>>)
             ELSE lazy_first_cadran_with_rain(items, i + 1)

\* Rain.next_rain_date_locale over a lazily converted forecast.
next_rain_date_locale_lazy(raw) ==
    IF ~HasKey(raw, "properties") THEN Raise("KeyError")
    ELSE IF ~HasKey(raw.properties, "forecast") THEN Raise("KeyError")
    ELSE LET found == lazy_first_cadran_with_rain(raw.properties.forecast, 1)
         IN  IF Failed(found) THEN found
             ELSE IF Value(found) = <<>> THEN Ok(<<>>)
             ELSE LET pos == position(raw)
                  IN  IF Failed(pos) THEN pos
                      ELSE Ok(<<timestamp_to_dateime_with_locale_tz(
                                   Value(found)[1].dt, Value(pos).timezone)>>)

\* Rain.next_rain_date_locale: self.forecast is evaluated in full when the
\* generator expression is created, self.position only when a cadran with
\* rain was found.
next_rain_date_locale(raw) ==
    LET fc == forecast(raw)
    IN  IF Failed(fc) THEN fc
        ELSE LET next_rain == first_cadran_with_rain(Value(fc), 1)
             IN  IF next_rain = <<>> THEN Ok(<<>>)
                 ELSE LET pos == position(raw)
                      IN  IF Failed(pos) THEN pos
                          ELSE Ok(<<timestamp_to_dateime_with_locale_tz(
                                       next_rain[1].dt, Value(pos).timezone)>>)

\* Rain.timestamp_to_locale_time
timestamp_to_locale_time(raw, timestamp) ==
    LET pos == position(raw)
    IN  IF Failed(pos) THEN pos
        ELSE Ok(timestamp_to_dateime_with_locale_tz(timestamp,
                                                    Value(pos).timezone))

----------------------------------------------------------------------------
(* The payloads the adapter is constructed from *)

Without(d, k) == [x \in DOMAIN d \ {k} |-> d[x]]

\* Places a payload can be about (whole degrees stand for the floats).
Places ==
    { [lon |-> 2, lat |-> 48, alti |-> 76, name |-> "Meudon",
       country |-> "FR - France", dept |-> "92",
       timezone |-> "Europe/Paris", rain_product_available |-> 1],
      [lon |-> -61, lat |-> 16, alti |-> 10, name |-> "Les Abymes",
       country |-> "GP - Guadeloupe", dept |-> "971",
       timezone |-> "America/Guadeloupe", rain_product_available |-> 0] }

Intensities == {1, 2, 3}

Description(rain) ==
    CASE rain = 1 -> "Temps sec"
      [] rain = 2 -> "Pluie faible"
      [] rain = 3 -> "Pluie moderee"

\* The time string of the i-th slot, "2024-02-04T14:10:00.000Z" and every
\* five minutes from there; without its "T" when malformed.
SlotTime(i, wellformed) ==
    [y |-> 2024, mo |-> 2, d |-> 4, sep |-> IF wellformed THEN "T" ELSE "",
     hh |-> 14, mi |-> 10 + 5 * (i - 1), ss |-> 0, ms |-> 0, tz |-> "Z"]

\* "2024-02-04T13:55:00.000Z", the same instant written
\* "2024-02-04T14:55:00.750+01:00", and "2024-02-0413:55:00.000Z".
UpdateTimes ==
    { [y |-> 2024, mo |-> 2, d |-> 4, sep |-> "T", hh |-> 13, mi |-> 55,
       ss |-> 0, ms |-> 0, tz |-> "Z"],
      [y |-> 2024, mo |-> 2, d |-> 4, sep |-> "T", hh |-> 14, mi |-> 55,
       ss |-> 0, ms |-> 750, tz |-> "+01:00"],
      [y |-> 2024, mo |-> 2, d |-> 4, sep |-> "", hh |-> 13, mi |-> 55,
       ss |-> 0, ms |-> 0, tz |-> "Z"] }

\* A choice of slots: per slot its intensity and whether its time string is
\* well formed.
SlotChoices(maxlen) ==
    UNION { [1..n -> Intensities \X BOOLEAN] : n \in 0..maxlen }

\* The v2 (GeoJSON-like) forecast list of a choice of slots.
ForecastV2(c) ==
    [i \in 1..Len(c) |->
        [time |-> SlotTime(i, c[i][2]),
         rain_intensity |-> c[i][1],
         rain_intensity_description |-> Description(c[i][1])]]

\* The v1 (flat) forecast list of a choice of slots; v1 carries integers,
\* so no slot of it is malformed.
ForecastV1(c) ==
    [i \in 1..Len(c) |->
        [dt   |-> Value(iso_to_timestamp(SlotTime(i, TRUE))),
         rain |-> c[i][1],
         desc |-> Description(c[i][1])]]

\* Keys a v2 payload may lack ("" for a complete payload).
Lacking ==
    {"", "coordinates", "properties", "timezone", "rain_product_available",
     "update_time"}

\* The v2 payload, as in tests/test_rain.py.
PayloadV2(place, update_time, c, lacking) ==
    LET geometry   == [type |-> "Point",
                       coordinates |-> <<place.lon, place.lat>>]
        properties == [altitude |-> place.alti,
                       name |-> place.name,
                       country |-> place.country,
                       french_department |-> place.dept,
                       rain_product_available |-> place.rain_product_available,
                       timezone |-> place.timezone,
                       forecast |-> ForecastV2(c)]
        full == [update_time |-> update_time, type |-> "Feature",
                 geometry |-> geometry, properties |-> properties]
    IN  CASE lacking = "" -> full
          [] lacking = "coordinates" ->
                [full EXCEPT !.geometry = Without(geometry, "coordinates")]
          [] lacking \in {"properties", "update_time"} -> Without(full, lacking)
          [] OTHER -> [full EXCEPT !.properties = Without(properties, lacking)]

\* The v1 payload, as class RainData describes raw_data.
PayloadV1(place, c) ==
    [position |-> [lat |-> place.lat, lon |-> place.lon, alti |-> place.alti,
                   name |-> place.name, country |-> place.country,
                   dept |-> place.dept,
                   rain_product_available |-> place.rain_product_available,
                   timezone |-> place.timezone],
     updated_on |-> Value(iso_to_timestamp(
                       CHOOSE u \in UpdateTimes : u.sep = "T" /\ u.tz = "Z")),
     forecast |-> ForecastV1(c),
     quality |-> 0]

\* Timestamps timestamp_to_locale_time is called with: 2024-02-04T14:25:00Z
\* (winter time in Paris) and 2020-05-20T17:50:00Z (summer time).
Timestamps == {1707056700, 1589997000}

OpNames ==
    {"position", "updated_on", "forecast", "quality",
     "next_rain_date_locale", "timestamp_to_locale_time"}

----------------------------------------------------------------------------
(* Construction and calls *)

\* Rain.__init__: stores the payload, reads nothing of it.
Rain_init(payload) ==
    /\ raw_data = payload
    /\ constructed = payload
    /\ op = "init"
    /\ arg = 0
    /\ result = Ok(0)
    /\ first = [o \in OpNames |-> <<>>]
    /\ again = FALSE

InitV2(maxlen) ==
    \E place \in Places, u \in UpdateTimes, c \in SlotChoices(maxlen),
       lacking \in Lacking :
        Rain_init(PayloadV2(place, u, c, lacking))

InitV1(maxlen) ==
    \E place \in Places, c \in SlotChoices(maxlen) :
        /\ \A i \in 1..Len(c) : c[i][2]
        /\ Rain_init(PayloadV1(place, c))

Init == InitV2(MaxLen) \/ InitV1(MaxLen)

\* What a call leaves behind: the accessor, its argument and its outcome;
\* the first call of each accessor is remembered when `track` is set.
Called(name, a, out, track) ==
    /\ op' = name
    /\ arg' = a
    /\ result' = out
    /\ first' = IF track /\ first[name] = <<>>
                THEN [first EXCEPT ![name] = <<[arg |-> a, out |-> out]>>]
                ELSE first
    /\ again' = (first[name] # <<>>)
    /\ UNCHANGED constructed

Call_position(track) ==
    /\ Called("position", 0, position(raw_data), track)
    /\ UNCHANGED raw_data

Call_updated_on(track) ==
    /\ Called("updated_on", 0, updated_on(raw_data), track)
    /\ UNCHANGED raw_data

\* Rain.forecast taking the entries off the raw list as it converts them
\* (while items: item = items.pop(0)): the payload is left without them.
Call_forecast_consuming(track) ==
    /\ Called("forecast", 0, forecast(raw_data), track)
    /\ raw_data' =
         IF HasKey(raw_data, "properties")
            /\ HasKey(raw_data.properties, "forecast")
         THEN [raw_data EXCEPT !.properties.forecast = <<>>]
         ELSE raw_data

Call_forecast(track) ==
    /\ Called("forecast", 0, forecast(raw_data), track)
    /\ UNCHANGED raw_data

Call_quality(track) ==
    /\ Called("quality", 0, quality(raw_data), track)
    /\ UNCHANGED raw_data

Call_next_rain_date_locale(track) ==
    /\ Called("next_rain_date_locale", 0, next_rain_date_locale(raw_data),
              track)
    /\ UNCHANGED raw_data

Call_timestamp_to_locale_time(track) ==
    \E timestamp \in Timestamps :
        /\ Called("timestamp_to_locale_time", timestamp,
                  timestamp_to_locale_time(raw_data, timestamp), track)
        /\ UNCHANGED raw_data

Next ==
    \/ Call_position(FALSE)
    \/ Call_updated_on(FALSE)
    \/ Call_forecast(FALSE)
    \/ Call_quality(FALSE)
    \/ Call_next_rain_date_locale(FALSE)
    \/ Call_timestamp_to_locale_time(FALSE)

Spec == Init /\ [][Next]_vars

\* The same adapter with the first outcome of every accessor remembered, to
\* compare later calls with.
InitTracked == InitV2(MaxLenTracked) \/ InitV1(MaxLenTracked)

NextTracked ==
    \/ Call_position(TRUE)
    \/ Call_updated_on(TRUE)
    \/ Call_forecast(TRUE)
    \/ Call_quality(TRUE)
    \/ Call_next_rain_date_locale(TRUE)
    \/ Call_timestamp_to_locale_time(TRUE)

SpecTracked == InitTracked /\ [][NextTracked]_vars

----------------------------------------------------------------------------
(* The raw payload as the specification reads it, whatever its shape *)

\* Shape B (v2, GeoJSON-like) is told from Shape A (v1, flat) by its
\* geometry key.
IsShapeB(raw) == HasKey(raw, "geometry")

IsShapeA(raw) == ~IsShapeB(raw)

\* Every key position() needs of the detected shape is there.
PositionKeysPresent(raw) ==
    IF IsShapeB(raw)
    THEN /\ HasKey(raw.geometry, "coordinates")
         /\ HasKey(raw, "properties")
         /\ \A k \in {"altitude", "name", "country", "french_department",
                      "timezone"} : HasKey(raw.properties, k)
    ELSE /\ HasKey(raw, "position")
         /\ \A k \in {"lat", "lon", "alti", "name", "country", "dept",
                      "timezone", "rain_product_available"} :
                HasKey(raw.position, k)

HasRawForecast(raw) ==
    IF IsShapeB(raw)
    THEN HasKey(raw, "properties") /\ HasKey(raw.properties, "forecast")
    ELSE HasKey(raw, "forecast")

RawForecast(raw) ==
    IF IsShapeB(raw) THEN raw.properties.forecast ELSE raw.forecast

\* A time string without its "T" does not parse.
Unparseable(s) == s.sep = ""

\* Some entry of the raw forecast list carries a time string that does not
\* parse (Shape A entries carry integers).
HasMalformedSlot(raw) ==
    /\ IsShapeB(raw)
    /\ HasRawForecast(raw)
    /\ \E i \in 1..Len(RawForecast(raw)) : Unparseable(RawForecast(raw)[i].time)

\* A payload with its forecast list, the keys of its position and time
\* strings that all parse.
WellFormed(raw) ==
    /\ PositionKeysPresent(raw)
    /\ HasRawForecast(raw)
    /\ ~HasMalformedSlot(raw)

RawIntensity(raw, i) ==
    IF IsShapeB(raw) THEN RawForecast(raw)[i].rain_intensity
    ELSE RawForecast(raw)[i].rain

\* Unix seconds of the i-th raw slot: slot i of the payloads explored is
\* 2024-02-04T14:10:00Z plus five minutes per slot before it.
RawTimestamp(raw, i) == 1707055800 + 300 * (i - 1)

RawTimezone(raw) ==
    IF IsShapeB(raw) THEN raw.properties.timezone ELSE raw.position.timezone

\* The slot the specification maps the i-th raw entry to.
MappedSlot(raw, i) ==
    IF IsShapeB(raw)
    THEN [dt   |-> RawTimestamp(raw, i),
          rain |-> RawForecast(raw)[i].rain_intensity,
          desc |-> RawForecast(raw)[i].rain_intensity_description]
    ELSE RawForecast(raw)[i]

RainySlots(raw) ==
    {i \in 1..Len(RawForecast(raw)) : RawIntensity(raw, i) > 1}

FirstRainySlot(raw) ==
    CHOOSE k \in RainySlots(raw) : \A j \in RainySlots(raw) : k <= j

----------------------------------------------------------------------------
(* Claims *)

\* C1: for every payload whose forecast holds a slot with rain_intensity > 1,
\* next_rain_date_locale() returns the timestamp of the FIRST such slot,
\* localized in the timezone of the position.
C1_FirstRainySlotLocalized ==
    (/\ op = "next_rain_date_locale"
     /\ WellFormed(raw_data)
     /\ RainySlots(raw_data) # {})
    => result = Ok(<<timestamp_to_dateime_with_locale_tz(
                       RawTimestamp(raw_data, FirstRainySlot(raw_data)),
                       RawTimezone(raw_data))>>)

\* C1 on Shape B payloads alone: there the first rainy slot is returned.
C1_ShapeB_FirstRainySlotLocalized ==
    IsShapeB(raw_data) => C1_FirstRainySlotLocalized

\* A Shape B payload with a rainy slot after its first rainy slot.
C1_ShapeB_Reached ==
    /\ op = "next_rain_date_locale"
    /\ IsShapeB(raw_data)
    /\ WellFormed(raw_data)
    /\ Cardinality(RainySlots(raw_data)) >= 2
    /\ FirstRainySlot(raw_data) >= 2
    /\ ~Failed(result)

\* C2: for every payload whose slots all have rain_intensity <= 1 (the empty
\* forecast included), next_rain_date_locale() returns None and raises
\* nothing.
C2_NoRainReturnsNone ==
    (/\ op = "next_rain_date_locale"
     /\ WellFormed(raw_data)
     /\ RainySlots(raw_data) = {})
    => result = Ok(<<>>)

\* C2 on Shape B payloads alone.
C2_ShapeB_NoRainReturnsNone ==
    IsShapeB(raw_data) => C2_NoRainReturnsNone

\* C3: for a payload of either shape, forecast() returns as many slots as the
\* raw forecast list has entries, the i-th slot being the mapping of the i-th
\* raw entry.
C3_ForecastKeepsLengthAndOrder ==
    (op = "forecast" /\ WellFormed(raw_data))
    => /\ ~Failed(result)
       /\ Len(Value(result)) = Len(RawForecast(raw_data))
       /\ \A i \in 1..Len(RawForecast(raw_data)) :
              Value(result)[i] = MappedSlot(raw_data, i)

\* C3 on Shape B payloads alone.
C3_ShapeB_ForecastKeepsLengthAndOrder ==
    IsShapeB(raw_data) => C3_ForecastKeepsLengthAndOrder

\* C4: position().rain_product_available is the raw value for a Shape A
\* payload and 1 for a Shape B payload, whatever its properties hold.
C4_RainProductAvailable ==
    (op = "position" /\ PositionKeysPresent(raw_data))
    => /\ ~Failed(result)
       /\ Value(result).rain_product_available =
              IF IsShapeA(raw_data)
              THEN raw_data.position.rain_product_available
              ELSE 1

\* C4 on Shape B payloads alone.
C4_ShapeB_RainProductAvailable ==
    IsShapeB(raw_data) => C4_RainProductAvailable

\* C6: updated_on() returns Unix seconds for both shapes: the raw integer of a
\* Shape A payload, and for a Shape B payload the whole seconds of the instant
\* its update_time writes (1707054900 for "2024-02-04T13:55:00.000Z").
C6_UpdatedOnUnixSeconds ==
    op = "updated_on"
    => /\ IsShapeA(raw_data) /\ HasKey(raw_data, "updated_on")
            => result = Ok(raw_data.updated_on)
       /\ (/\ IsShapeB(raw_data)
           /\ HasKey(raw_data, "update_time")
           /\ ~Unparseable(raw_data.update_time))
            => result = Ok(1707054900)

\* C6 on Shape B payloads alone.
C6_ShapeB_UpdatedOnUnixSeconds ==
    IsShapeB(raw_data) => C6_UpdatedOnUnixSeconds

\* C8: position() fails with the missing-field error (KeyError) whenever a key
\* the detected shape requires is absent, and succeeds whenever they are all
\* present.
C8_PositionMissingField ==
    op = "position"
    => IF PositionKeysPresent(raw_data)
       THEN ~Failed(result)
       ELSE result = Raise("KeyError")

\* C8 on Shape B payloads alone.
C8_ShapeB_PositionMissingField ==
    IsShapeB(raw_data) => C8_PositionMissingField

\* C5: for every Shape B payload, position().lon is geometry.coordinates[0]
\* and position().lat is geometry.coordinates[1] (longitude first).
C5_LonLatOrder ==
    (op = "position" /\ IsShapeB(raw_data) /\ PositionKeysPresent(raw_data))
    => /\ ~Failed(result)
       /\ Value(result).lon = raw_data.geometry.coordinates[1]
       /\ Value(result).lat = raw_data.geometry.coordinates[2]

\* position() has answered for a Shape B payload whose two coordinates differ.
C5_Reached ==
    /\ op = "position"
    /\ IsShapeB(raw_data)
    /\ PositionKeysPresent(raw_data)
    /\ ~Failed(result)
    /\ raw_data.geometry.coordinates[1] # raw_data.geometry.coordinates[2]

\* C7: when an entry of the raw forecast list has a time string that does not
\* parse, forecast() fails with the malformed-timestamp error (ValueError);
\* a call of forecast() ends either with the whole mapped sequence or with an
\* error, never with a prefix of the slots.
C7_ForecastAllOrNothing ==
    op = "forecast"
    => /\ HasMalformedSlot(raw_data) => result = Raise("ValueError")
       /\ (~Failed(result) /\ HasRawForecast(raw_data))
            => Len(Value(result)) = Len(RawForecast(raw_data))

\* forecast() has failed on a list whose malformed entry comes after entries
\* that parse.
C7_Reached ==
    /\ op = "forecast"
    /\ HasMalformedSlot(raw_data)
    /\ Len(RawForecast(raw_data)) >= 2
    /\ ~Unparseable(RawForecast(raw_data)[1].time)
    /\ Failed(result)

\* C9: after construction and after any sequence of calls, the stored payload
\* is the one the adapter was constructed from, and every accessor returns
\* what its first call returned.
C9_CallsChangeNothing ==
    /\ raw_data = constructed
    /\ op # "init"
       => /\ first[op] # <<>>
          /\ first[op][1].arg = arg => first[op][1].out = result

\* Every accessor has been called, and forecast() called again after that.
C9_Reached ==
    /\ \A o \in OpNames : first[o] # <<>>
    /\ op = "forecast"
    /\ again
    /\ HasRawForecast(raw_data)
    /\ Len(RawForecast(raw_data)) >= 1

\* C10: next_rain_date_locale() fails whenever forecast() fails, with the
\* same error: a malformed time string in any raw entry makes it raise, also
\* when the entry comes after the first slot with rain_intensity > 1.
C10_OnsetFailsWithForecast ==
    op = "next_rain_date_locale"
    => /\ Failed(forecast(raw_data)) => result = forecast(raw_data)
       /\ HasMalformedSlot(raw_data) => result = Raise("ValueError")

\* next_rain_date_locale() has failed on a payload whose first slot has rain
\* and parses, and whose malformed slot comes later.
C10_Reached ==
    /\ op = "next_rain_date_locale"
    /\ PositionKeysPresent(raw_data)
    /\ HasMalformedSlot(raw_data)
    /\ ~Unparseable(RawForecast(raw_data)[1].time)
    /\ RawIntensity(raw_data, 1) > 1
    /\ Failed(result)

====
